---- MODULE Spec2Model ----
(***************************************************************************)
(* ZIP central-directory repair and verification of FM4_CarAudioTuner.py:  *)
(* rebuild_zip_central_directory (scan of the local entries, build of the  *)
(* central directory and of the EOCD record, rewrite of the file) and      *)
(* verify_zip.  Archives are sequences of bytes (0..255) with the real     *)
(* record layouts; every loop iteration of either function is one step.    *)
(***************************************************************************)
EXTENDS Integers, Sequences, FiniteSets, TLC

VARIABLES
    file,           \* content of the file at zip_path
    pieces,         \* the records the initial content of the file was serialized from
    pc,             \* position of the running function, "idle" between calls
    data,           \* rebuild/verify: the bytes read from the file
    offset,         \* rebuild/verify: loop variable `offset`
    local_entries,  \* rebuild: list of entry dicts
    local_data_end, \* rebuild: offset at which the scan loop ended
    cd_entries,     \* rebuild: central-directory block
    cd_offset,      \* verify: declared central-directory offset
    entry_count,    \* verify: declared entry count
    local_count,    \* verify: local headers counted
    result,         \* verify: the (valid, message) pair last returned
    last,           \* the last call that ended: function and outcome
    rebuilt,        \* number of rebuilds that wrote the file
    spliced,        \* a byte was inserted into the rebuilt file
    vlog,           \* result of verify_zip after k rebuilds (file not spliced)
    xpc,            \* _on_export: position of the handler, "off" when it is not used
    settings,       \* _on_export: output_var, mapping_loaded, file_mapping["main_et_zip"]
    output_override,\* _on_export: local `output_override`
    has_override,   \* _on_export: local `has_override`
    disk,           \* content of the files at the paths other than OUTPUT_ZIP
    current_tree,   \* editor: a car is loaded (self.current_tree is not None)
    form,           \* editor: the values held by the widgets
    undo_stack,     \* editor: self._undo_stack
    redo_stack,     \* editor: self._redo_stack
    last_state,     \* editor: self._last_state
    edit_timer,     \* editor: a _check_and_push_undo callback is scheduled
    moves           \* editor: undos and redos since the car was selected

vars == <<file, pieces, pc, data, offset, local_entries, local_data_end,
          cd_entries, cd_offset, entry_count, local_count, result, last,
          rebuilt, spliced, vlog,
          xpc, settings, output_override, has_override, disk,
          current_tree, form, undo_stack, redo_stack, last_state, edit_timer, moves>>

exportVars == <<xpc, settings, output_override, has_override, disk>>
undoVars == <<current_tree, form, undo_stack, redo_stack, last_state, edit_timer, moves>>

-----------------------------------------------------------------------------
(* Bounds of the model *)

\* longest sequence of pieces an initial archive is made of
MaxPieces == 2
\* number of successive rebuilds of the same file
MaxRebuilds == 2

-----------------------------------------------------------------------------
(* Bytes, struct.pack / struct.unpack_from with "<" (little-endian) formats *)

\* size of the fixed part of a local file header, "<IHHHHHIIIHH"
LocalHeaderSize == 30

SigLocal == <<80, 75, 3, 4>>     \* 0x04034B50, b"PK\x03\x04"
SigCD    == <<80, 75, 1, 2>>     \* 0x02014B50, b"PK\x01\x02"
SigEOCD  == <<80, 75, 5, 6>>     \* 0x06054B50, b"PK\x05\x06"

Min(a, b) == IF a < b THEN a ELSE b

\* Python slice s[a:b] with 0 <= a: clamped to the sequence, never raises
Slice(s, a, b) ==
    LET lo == Min(a, Len(s))
        hi == Min(b, Len(s))
    IN  IF hi <= lo THEN <<>> ELSE SubSeq(s, lo + 1, hi)

\* struct.pack("<H", n), struct.pack("<I", n)
PackH(n) == <<n % 256, (n \div 256) % 256>>
PackI(n) == <<n % 256, (n \div 256) % 256, (n \div 65536) % 256, (n \div 16777216) % 256>>

\* struct.unpack_from raises struct.error unless off + size <= len(buffer)
CanUnpack(s, off, size) == off + size <= Len(s)

\* struct.unpack_from("<H", s, off)[0], struct.unpack_from("<I", s, off)[0]
UnpackH(s, off) == s[off + 1] + 256 * s[off + 2]
UnpackI(s, off) == s[off + 1] + 256 * s[off + 2] + 65536 * s[off + 3] + 16777216 * s[off + 4]

\* bytes.decode("ascii", errors="replace"): one U+FFFD per byte >= 0x80
ReplacementChar == 65533
AsciiLimit == 128
DecodeAscii(b) == [i \in 1..Len(b) |-> IF b[i] < AsciiLimit THEN b[i] ELSE ReplacementChar]

\* str.encode("ascii") raises UnicodeEncodeError on a code point >= 0x80
CanEncodeAscii(name) == \A i \in 1..Len(name) : name[i] < AsciiLimit
EncodeAscii(name) == [i \in 1..Len(name) |-> name[i] % 256]

\* bytes.rfind(sub): 0-based index of the last occurrence, -1 if none
RFind(s, sub) ==
    LET hits == {i \in 0..(Len(s) - Len(sub)) : Slice(s, i, i + Len(sub)) = sub}
    IN  IF hits = {} THEN -1 ELSE CHOOSE i \in hits : \A j \in hits : j <= i

RECURSIVE Concat(_)
Concat(ss) == IF ss = <<>> THEN <<>> ELSE Head(ss) \o Concat(Tail(ss))

-----------------------------------------------------------------------------
(* Record layouts *)

\* the twelve values rebuild stores per local header ("<HHHHHIIIHH" at offset + 4)
ParseLocalHeader(s, off) ==
    LET fn_len == UnpackH(s, off + 26)
    IN  [ local_header_offset |-> off,
          name      |-> DecodeAscii(Slice(s, off + 30, off + 30 + fn_len)),
          ver       |-> UnpackH(s, off + 4),
          flags     |-> UnpackH(s, off + 6),
          method    |-> UnpackH(s, off + 8),
          modtime   |-> UnpackH(s, off + 10),
          moddate   |-> UnpackH(s, off + 12),
          crc       |-> UnpackI(s, off + 14),
          comp_sz   |-> UnpackI(s, off + 18),
          uncomp_sz |-> UnpackI(s, off + 22),
          fn_len    |-> fn_len,
          extra_len |-> UnpackH(s, off + 28) ]

\* variant: the payload is left out of the advance
EntrySpanWithoutPayload(e) == LocalHeaderSize + e.fn_len + e.extra_len

\* the advance of both loops over a local header
EntrySpan(e) == LocalHeaderSize + e.fn_len + e.extra_len + e.comp_sz

\* variant: the extra length of the local header is carried into the record
CDRecordKeepsExtra(e) ==
    SigCD \o PackH(e.ver) \o PackH(e.ver) \o PackH(e.flags) \o PackH(e.method)
          \o PackH(e.modtime) \o PackH(e.moddate)
          \o PackI(e.crc) \o PackI(e.comp_sz) \o PackI(e.uncomp_sz)
          \o PackH(e.fn_len) \o PackH(e.extra_len) \o PackH(0) \o PackH(0) \o PackH(0)
          \o PackI(0) \o PackI(e.local_header_offset)
          \o EncodeAscii(e.name)

\* struct.pack("<IHHHHHHIIIHHHHHII", 0x02014B50, ...) + fn_bytes
CDRecord(e) ==
    SigCD \o PackH(e.ver) \o PackH(e.ver) \o PackH(e.flags) \o PackH(e.method)
          \o PackH(e.modtime) \o PackH(e.moddate)
          \o PackI(e.crc) \o PackI(e.comp_sz) \o PackI(e.uncomp_sz)
          \o PackH(e.fn_len) \o PackH(0) \o PackH(0) \o PackH(0) \o PackH(0)
          \o PackI(0) \o PackI(e.local_header_offset)
          \o EncodeAscii(e.name)

\* struct.pack("<IHHHHIIH", 0x06054B50, 0, 0, n, n, cd_size, cd_off, 0)
\* variant: the offset is packed before the size
EOCDRecordOffsetFirst(n, cd_size, cd_off) ==
    SigEOCD \o PackH(0) \o PackH(0) \o PackH(n) \o PackH(n)
            \o PackI(cd_off) \o PackI(cd_size) \o PackH(0)

EOCDRecord(n, cd_size, cd_off) ==
    SigEOCD \o PackH(0) \o PackH(0) \o PackH(n) \o PackH(n)
            \o PackI(cd_size) \o PackI(cd_off) \o PackH(0)

-----------------------------------------------------------------------------
(* Initial archives: pieces serialized one after the other *)

Entry(ver, flags, method, modtime, moddate, crc, comp_sz, uncomp_sz, name, extra, payload) ==
    [ kind |-> "entry", ver |-> ver, flags |-> flags, method |-> method,
      modtime |-> modtime, moddate |-> moddate, crc |-> crc, comp_sz |-> comp_sz,
      uncomp_sz |-> uncomp_sz, name |-> name, extra |-> extra, payload |-> payload ]

Raw(bytes) ==
    [ kind |-> "raw", ver |-> 0, flags |-> 0, method |-> 0, modtime |-> 0,
      moddate |-> 0, crc |-> 0, comp_sz |-> 0, uncomp_sz |-> 0,
      name |-> <<>>, extra |-> <<>>, payload |-> bytes ]

\* the local header rebuild and verify parse: signature, "<HHHHHIIIHH", name, extra, payload
SerializePiece(p) ==
    IF p.kind = "raw" THEN p.payload
    ELSE SigLocal \o PackH(p.ver) \o PackH(p.flags) \o PackH(p.method)
                  \o PackH(p.modtime) \o PackH(p.moddate)
                  \o PackI(p.crc) \o PackI(p.comp_sz) \o PackI(p.uncomp_sz)
                  \o PackH(Len(p.name)) \o PackH(Len(p.extra))
                  \o p.name \o p.extra \o p.payload

Serialize(ps) == Concat([i \in 1..Len(ps) |-> SerializePiece(ps[i])])

\* "a", deflated, 2 payload bytes
EntryA == Entry(20, 2, 8, 258, 772, 16909060, 2, 261, <<97>>, <<>>, <<7, 7>>)
\* "b.", stored, one extra byte, no payload
EntryB == Entry(10, 0, 0, 513, 1027, 67305985, 0, 0, <<98, 46>>, <<9>>, <<>>)
\* no name, no extra, no payload: exactly the 30 header bytes
EntryBare == Entry(20, 0, 0, 0, 0, 0, 0, 0, <<>>, <<>>, <<>>)
\* a name with the byte 0xE9
EntryLatin == Entry(20, 0, 8, 1, 1, 5, 1, 1, <<233>>, <<>>, <<7>>)
\* a header declaring 69 payload bytes of which none is in the buffer
EntryCut == Entry(20, 0, 8, 1, 1, 5, 69, 69, <<116>>, <<>>, <<>>)

\* one byte that starts no signature
Junk == Raw(<<0>>)
\* a central directory and EOCD left behind for EntryA at offset 0
OldDirectory ==
    Raw(CDRecord(ParseLocalHeader(SerializePiece(EntryA), 0))
        \o EOCDRecord(1, 47, 33))
\* an EOCD signature with nothing behind it
BareEOCD == Raw(SigEOCD)
\* a local signature, a central-directory signature and an EOCD without its
\* comment-length field, declaring 1 entry and the directory at offset 4
ShortArchive ==
    Raw(SigLocal \o SigCD \o SubSeq(EOCDRecord(1, 0, 4), 1, 20))

WellFormedEntries == {EntryA, EntryB, EntryBare, EntryLatin}
Catalog == WellFormedEntries \cup {EntryCut, Junk, OldDirectory, BareEOCD, ShortArchive}

RECURSIVE SeqsUpTo(_, _)
SeqsUpTo(S, n) ==
    IF n = 0 THEN {<<>>}
    ELSE LET shorter == SeqsUpTo(S, n - 1)
         IN  shorter \cup {Append(q, x) : q \in {r \in shorter : Len(r) = n - 1}, x \in S}

\* a central-directory signature with nothing behind it
DirectoryStub == Raw(SigCD)
\* two entries with a junk byte between them; an entry, or junk, before a
\* central-directory signature that ends the buffer
Interspersed == {<<a, Junk, b>> : a \in {EntryA, EntryB}, b \in {EntryA, EntryB, EntryBare}}
Stubbed == {<<a, DirectoryStub>> : a \in {EntryA, Junk}}

\* a header declaring a 2-byte name of which one byte is in the buffer
EntryClipped ==
    Raw(SubSeq(SerializePiece(Entry(20, 0, 0, 1, 1, 5, 0, 0, <<116, 117>>, <<>>, <<>>)), 1, 31))
Clipped == {<<EntryClipped>>, <<EntryA, EntryClipped>>}

Inputs == SeqsUpTo(Catalog, MaxPieces) \cup Interspersed \cup Stubbed \cup Clipped

-----------------------------------------------------------------------------
(* Return values *)

Message(text, args) == [text |-> text, args |-> args]
NoResult == [valid |-> FALSE, message |-> Message("", <<>>)]
Result(valid, text, args) == [valid |-> valid, message |-> Message(text, args)]

Idle(fn, outcome) == [fn |-> fn, outcome |-> outcome]

\* self._last_state = None
NoState == -1

-----------------------------------------------------------------------------
(* Paths and settings of the export *)

\* os.path.join(folder, name)
Join(folder, name) == <<folder, name>>
BASE_DIR == "base"
OUTPUT_ZIP == Join(BASE_DIR, "enginetuning.zip")
\* an override folder other than BASE_DIR, and the game's archive found by Find Files
ModsDir == "mods"
GameZip == Join("game", "enginetuning.zip")
NoPath == <<>>
OtherZips == {Join(ModsDir, "enginetuning.zip"), GameZip}

\* self.output_var (an existing folder, or empty), self.mapping_loaded,
\* self.file_mapping.get("main_et_zip"); file_mapping is {} while no mapping
\* is loaded
Settings ==
    {s \in [output_var : {"", ModsDir, BASE_DIR}, mapping_loaded : BOOLEAN,
            main_et_zip : {NoPath, GameZip}] :
        ~s.mapping_loaded => s.main_et_zip = NoPath}
NoSettings == [output_var |-> "", mapping_loaded |-> FALSE, main_et_zip |-> NoPath]

\* the archive an earlier export left at every place an export can deliver to
EarlierArchive == Serialize(<<EntryB, OldDirectory>>)

Init ==
    /\ pieces \in Inputs
    /\ file = Serialize(pieces)
    /\ pc = "idle"
    /\ data = <<>>
    /\ offset = 0
    /\ local_entries = <<>>
    /\ local_data_end = 0
    /\ cd_entries = <<>>
    /\ cd_offset = 0
    /\ entry_count = 0
    /\ local_count = 0
    /\ result = NoResult
    /\ last = Idle("none", "returned")
    /\ rebuilt = 0
    /\ spliced = FALSE
    /\ vlog = [k \in 1..MaxRebuilds |-> NoResult]
    /\ xpc = "off"
    /\ settings = NoSettings
    /\ output_override = ""
    /\ has_override = FALSE
    /\ disk = [p \in OtherZips |-> EarlierArchive]
    /\ current_tree = FALSE
    /\ form = 0
    /\ undo_stack = <<>>
    /\ redo_stack = <<>>
    /\ last_state = NoState
    /\ edit_timer = FALSE
    /\ moves = 0

-----------------------------------------------------------------------------
(* rebuild_zip_central_directory *)

verifyVars == <<cd_offset, entry_count, local_count, result, vlog>>

\* with open(zip_path, "rb"): data = bytearray(f.read()); local_entries = []; offset = 0
RebuildStart ==
    /\ pc = "idle"
    /\ rebuilt < MaxRebuilds
    /\ ~spliced
    /\ pc' = "scan"
    /\ data' = file
    /\ offset' = 0
    /\ local_entries' = <<>>
    /\ local_data_end' = 0
    /\ cd_entries' = <<>>
    /\ UNCHANGED <<file, pieces, last, rebuilt, spliced, verifyVars>>
    /\ UNCHANGED <<exportVars, undoVars>>

\* variant: the loop runs to the end of the buffer
ScanContinuesToEnd(off, buf) == off < Len(buf)

\* while offset < len(data) - 30
ScanContinues(off, buf) == off < Len(buf) - LocalHeaderSize

\* sig == 0x04034B50: append the entry, advance over header, name, extra and payload
ScanLocal ==
    /\ pc = "scan"
    /\ ScanContinues(offset, data)
    /\ Slice(data, offset, offset + 4) = SigLocal
    /\ LET e == ParseLocalHeader(data, offset)
       IN  /\ local_entries' = Append(local_entries, e)
           /\ offset' = offset + EntrySpan(e)
    /\ UNCHANGED <<file, pieces, pc, data, local_data_end, cd_entries, last,
                   rebuilt, spliced, verifyVars>>
    /\ UNCHANGED <<exportVars, undoVars>>

\* variant: the central-directory signature is stepped over like any other byte
ScanCDSkipped ==
    /\ pc = "scan"
    /\ ScanContinues(offset, data)
    /\ Slice(data, offset, offset + 4) = SigCD
    /\ offset' = offset + 1
    /\ UNCHANGED <<file, pieces, pc, data, local_entries, local_data_end,
                   cd_entries, last, rebuilt, spliced, cd_offset, entry_count,
                   local_count, result, vlog>>
    /\ UNCHANGED <<exportVars, undoVars>>

\* sig == 0x02014B50: break; local_data_end = offset
ScanCD ==
    /\ pc = "scan"
    /\ ScanContinues(offset, data)
    /\ Slice(data, offset, offset + 4) = SigCD
    /\ local_data_end' = offset
    /\ pc' = "build"
    /\ UNCHANGED <<file, pieces, data, offset, local_entries, cd_entries, last,
                   rebuilt, spliced, verifyVars>>
    /\ UNCHANGED <<exportVars, undoVars>>

\* else: offset += 1
ScanSkip ==
    /\ pc = "scan"
    /\ ScanContinues(offset, data)
    /\ Slice(data, offset, offset + 4) # SigLocal
    /\ Slice(data, offset, offset + 4) # SigCD
    /\ offset' = offset + 1
    /\ UNCHANGED <<file, pieces, pc, data, local_entries, local_data_end,
                   cd_entries, last, rebuilt, spliced, verifyVars>>
    /\ UNCHANGED <<exportVars, undoVars>>

\* the loop condition fails; local_data_end = offset
ScanEnd ==
    /\ pc = "scan"
    /\ ~ScanContinues(offset, data)
    /\ local_data_end' = offset
    /\ pc' = "build"
    /\ UNCHANGED <<file, pieces, data, offset, local_entries, cd_entries, last,
                   rebuilt, spliced, verifyVars>>
    /\ UNCHANGED <<exportVars, undoVars>>

\* variant: the records are emitted sorted by filename
BuildDirectorySorted(entries) ==
    LET before(i, j) == \/ Len(entries[i].name) < Len(entries[j].name)
                        \/ /\ Len(entries[i].name) = Len(entries[j].name)
                           /\ \/ entries[i].name = entries[j].name /\ i < j
                              \/ \E n \in 1..Len(entries[i].name) :
                                     /\ entries[i].name[n] < entries[j].name[n]
                                     /\ \A q \in 1..(n - 1) : entries[i].name[q] = entries[j].name[q]
        rank(i) == Cardinality({j \in 1..Len(entries) : before(j, i)}) + 1
        order == [r \in 1..Len(entries) |-> CHOOSE i \in 1..Len(entries) : rank(i) = r]
    IN  Concat([r \in 1..Len(entries) |-> CDRecord(entries[order[r]])])

\* for e in local_entries: ... cd_entries += entry + fn_bytes
BuildDirectory(entries) == Concat([i \in 1..Len(entries) |-> CDRecord(entries[i])])

\* e["name"].encode("ascii") succeeds for every entry
CanBuild(entries) == \A i \in 1..Len(entries) : CanEncodeAscii(entries[i].name)

Build ==
    /\ pc = "build"
    /\ CanBuild(local_entries)
    /\ cd_entries' = BuildDirectory(local_entries)
    /\ pc' = "write"
    /\ UNCHANGED <<file, pieces, data, offset, local_entries, local_data_end,
                   last, rebuilt, spliced, verifyVars>>
    /\ UNCHANGED <<exportVars, undoVars>>

\* UnicodeEncodeError leaves the function before the file is opened for writing
BuildRaises ==
    /\ pc = "build"
    /\ ~CanBuild(local_entries)
    /\ pc' = "idle"
    /\ last' = Idle("rebuild", "raised")
    /\ UNCHANGED <<file, pieces, data, offset, local_entries, local_data_end,
                   cd_entries, rebuilt, spliced, verifyVars>>
    /\ UNCHANGED <<exportVars, undoVars>>

\* new_zip = bytes(data[:local_data_end]) + bytes(cd_entries) + bytes(eocd)
NewZip(buf, entries, cd, lde) ==
    Slice(buf, 0, lde) \o cd \o EOCDRecord(Len(entries), Len(cd), lde)

\* f.write(new_zip); return len(local_entries)
Write ==
    /\ pc = "write"
    /\ file' = NewZip(data, local_entries, cd_entries, local_data_end)
    /\ rebuilt' = rebuilt + 1
    /\ pc' = "idle"
    /\ last' = Idle("rebuild", "returned")
    /\ UNCHANGED <<pieces, data, offset, local_entries, local_data_end,
                   cd_entries, spliced, verifyVars>>
    /\ UNCHANGED <<exportVars, undoVars>>

Rebuild == RebuildStart \/ ScanLocal \/ ScanCD \/ ScanSkip \/ ScanEnd
              \/ Build \/ BuildRaises \/ Write

-----------------------------------------------------------------------------
(* verify_zip *)

rebuildVars == <<local_entries, local_data_end, cd_entries>>

\* variant: the search looks for the two bytes "PK" every record starts with
EocdPosAnyRecord(buf) == RFind(buf, <<80, 75>>)

\* eocd_pos = data.rfind(b"PK\x05\x06")
EocdPos(buf) == RFind(buf, SigEOCD)

\* if eocd_pos < 0
NoEocd(pos) == pos < 0

\* cd_offset = struct.unpack_from("<I", data, eocd_pos + 16)[0]
CanReadCdOffset(buf) == CanUnpack(buf, EocdPos(buf) + 16, 4)
ReadCdOffset(buf) == UnpackI(buf, EocdPos(buf) + 16)

\* variant: an offset equal to the buffer length is let through
OffsetBeyondStrict(off, buf) == off > Len(buf)

\* if cd_offset >= len(data)
OffsetBeyond(off, buf) == off >= Len(buf)

\* variant: the signature is looked for anywhere from the offset on
BadSignatureAnywhere(buf, off) == RFind(Slice(buf, off, Len(buf)), SigCD) < 0

\* if data[cd_offset:cd_offset + 4] != b"PK\x01\x02"
BadSignature(buf, off) == Slice(buf, off, off + 4) # SigCD

\* the verify call ends: return (valid, message)
Return(r) ==
    /\ pc' = "idle"
    /\ result' = r
    /\ last' = Idle("verify", "returned")
    /\ vlog' = IF rebuilt >= 1 /\ ~spliced THEN [vlog EXCEPT ![rebuilt] = r] ELSE vlog

\* the verify call ends in struct.error
Raise ==
    /\ pc' = "idle"
    /\ last' = Idle("verify", "raised")
    /\ UNCHANGED <<result, vlog>>

\* with open(zip_path, "rb"): data = f.read()
VerifyStart ==
    /\ pc = "idle"
    /\ pc' = "locate"
    /\ data' = file
    /\ UNCHANGED <<file, pieces, offset, rebuildVars, cd_offset, entry_count,
                   local_count, result, last, rebuilt, spliced, vlog>>
    /\ UNCHANGED <<exportVars, undoVars>>

\* if eocd_pos < 0: return False, "No EOCD record found"
VerifyNoEOCD ==
    /\ pc = "locate"
    /\ NoEocd(EocdPos(data))
    /\ Return(Result(FALSE, "No EOCD record found", <<>>))
    /\ UNCHANGED <<file, pieces, data, offset, rebuildVars, cd_offset,
                   entry_count, local_count, rebuilt, spliced>>
    /\ UNCHANGED <<exportVars, undoVars>>

\* struct.unpack_from("<I", data, eocd_pos + 16) on fewer than 20 bytes
VerifyOffsetRaises ==
    /\ pc = "locate"
    /\ ~NoEocd(EocdPos(data))
    /\ ~CanReadCdOffset(data)
    /\ Raise
    /\ UNCHANGED <<file, pieces, data, offset, rebuildVars, cd_offset,
                   entry_count, local_count, rebuilt, spliced>>
    /\ UNCHANGED <<exportVars, undoVars>>

\* if cd_offset >= len(data): return False, "CD offset 0x... beyond file size"
VerifyOffsetBeyond ==
    /\ pc = "locate"
    /\ ~NoEocd(EocdPos(data))
    /\ CanReadCdOffset(data)
    /\ OffsetBeyond(ReadCdOffset(data), data)
    /\ cd_offset' = ReadCdOffset(data)
    /\ Return(Result(FALSE, "CD offset beyond file size", <<ReadCdOffset(data)>>))
    /\ UNCHANGED <<file, pieces, data, offset, rebuildVars, entry_count,
                   local_count, rebuilt, spliced>>
    /\ UNCHANGED <<exportVars, undoVars>>

\* if data[cd_offset:cd_offset + 4] != b"PK\x01\x02": return False, "Invalid CD signature at 0x..."
VerifyBadSignature ==
    /\ pc = "locate"
    /\ ~NoEocd(EocdPos(data))
    /\ CanReadCdOffset(data)
    /\ ~OffsetBeyond(ReadCdOffset(data), data)
    /\ BadSignature(data, ReadCdOffset(data))
    /\ cd_offset' = ReadCdOffset(data)
    /\ Return(Result(FALSE, "Invalid CD signature", <<ReadCdOffset(data)>>))
    /\ UNCHANGED <<file, pieces, data, offset, rebuildVars, entry_count,
                   local_count, rebuilt, spliced>>
    /\ UNCHANGED <<exportVars, undoVars>>

\* entry_count = struct.unpack_from("<H", data, eocd_pos + 10)[0]; local_count = 0; offset = 0
VerifyCount ==
    /\ pc = "locate"
    /\ ~NoEocd(EocdPos(data))
    /\ CanReadCdOffset(data)
    /\ ~OffsetBeyond(ReadCdOffset(data), data)
    /\ ~BadSignature(data, ReadCdOffset(data))
    /\ cd_offset' = ReadCdOffset(data)
    /\ entry_count' = UnpackH(data, EocdPos(data) + 10)
    /\ local_count' = 0
    /\ offset' = 0
    /\ pc' = "count"
    /\ UNCHANGED <<file, pieces, data, rebuildVars, result, last, rebuilt,
                   spliced, vlog>>
    /\ UNCHANGED <<exportVars, undoVars>>

\* sig == 0x04034B50: local_count += 1; offset += 30 + fields[8] + fields[9] + fields[6]
CountLocal ==
    /\ pc = "count"
    /\ offset < cd_offset
    /\ CanUnpack(data, offset, 4)
    /\ Slice(data, offset, offset + 4) = SigLocal
    /\ CanUnpack(data, offset + 4, 26)
    /\ local_count' = local_count + 1
    /\ offset' = offset + EntrySpan(ParseLocalHeader(data, offset))
    /\ UNCHANGED <<file, pieces, pc, data, rebuildVars, cd_offset, entry_count,
                   result, last, rebuilt, spliced, vlog>>
    /\ UNCHANGED <<exportVars, undoVars>>

\* else: offset += 1
CountSkip ==
    /\ pc = "count"
    /\ offset < cd_offset
    /\ CanUnpack(data, offset, 4)
    /\ Slice(data, offset, offset + 4) # SigLocal
    /\ offset' = offset + 1
    /\ UNCHANGED <<file, pieces, pc, data, rebuildVars, cd_offset, entry_count,
                   local_count, result, last, rebuilt, spliced, vlog>>
    /\ UNCHANGED <<exportVars, undoVars>>

\* struct.unpack_from of the signature or of the 26 header bytes past the end of data
CountRaises ==
    /\ pc = "count"
    /\ offset < cd_offset
    /\ IF CanUnpack(data, offset, 4)
       THEN Slice(data, offset, offset + 4) = SigLocal /\ ~CanUnpack(data, offset + 4, 26)
       ELSE TRUE
    /\ Raise
    /\ UNCHANGED <<file, pieces, data, offset, rebuildVars, cd_offset,
                   entry_count, local_count, rebuilt, spliced>>
    /\ UNCHANGED <<exportVars, undoVars>>

\* the value returned once the count loop has ended
Verdict(counted, declared, off) ==
    IF counted # declared
    THEN Result(FALSE, "Local headers != CD entries", <<counted, declared>>)
    ELSE Result(TRUE, "Valid: files, CD at", <<declared, off>>)

\* the loop condition fails: compare local_count with entry_count and return
CountEnd ==
    /\ pc = "count"
    /\ ~(offset < cd_offset)
    /\ Return(Verdict(local_count, entry_count, cd_offset))
    /\ UNCHANGED <<file, pieces, data, offset, rebuildVars, cd_offset,
                   entry_count, local_count, rebuilt, spliced>>
    /\ UNCHANGED <<exportVars, undoVars>>

Verify == VerifyStart \/ VerifyNoEOCD \/ VerifyOffsetRaises \/ VerifyOffsetBeyond
             \/ VerifyBadSignature \/ VerifyCount
             \/ CountLocal \/ CountSkip \/ CountRaises \/ CountEnd

-----------------------------------------------------------------------------
(* One byte spliced into the local-entries region of a rebuilt, valid archive *)

SpliceBytes == {0, 80}

InsertAt(s, p, b) == Slice(s, 0, p) \o <<b>> \o Slice(s, p, Len(s))

Splice ==
    /\ pc = "idle"
    /\ rebuilt = 1
    /\ ~spliced
    /\ last = Idle("verify", "returned")
    /\ result.valid
    /\ \E p \in 0..cd_offset, b \in SpliceBytes : file' = InsertAt(file, p, b)
    /\ spliced' = TRUE
    /\ UNCHANGED <<pieces, pc, data, offset, rebuildVars, cd_offset, entry_count,
                   local_count, result, last, rebuilt, vlog>>
    /\ UNCHANGED <<exportVars, undoVars>>


-----------------------------------------------------------------------------
(* _on_export: copy the backup, reimport, rebuild, verify, deliver *)

\* the backup archives an export starts from
ExportCatalog == {EntryA, EntryLatin, EntryCut, Junk, OldDirectory}
ExportInputs == SeqsUpTo(ExportCatalog, MaxPieces)
BACKUP_ZIP == Serialize(pieces)

InitExport ==
    /\ pieces \in ExportInputs
    /\ file = EarlierArchive
    /\ pc = "idle"
    /\ data = <<>>
    /\ offset = 0
    /\ local_entries = <<>>
    /\ local_data_end = 0
    /\ cd_entries = <<>>
    /\ cd_offset = 0
    /\ entry_count = 0
    /\ local_count = 0
    /\ result = NoResult
    /\ last = Idle("none", "returned")
    /\ rebuilt = 0
    /\ spliced = FALSE
    /\ vlog = [k \in 1..MaxRebuilds |-> NoResult]
    /\ xpc = "start"
    /\ settings \in Settings
    /\ output_override = ""
    /\ has_override = FALSE
    /\ disk = [p \in OtherZips |-> EarlierArchive]
    /\ current_tree = FALSE
    /\ form = 0
    /\ undo_stack = <<>>
    /\ redo_stack = <<>>
    /\ last_state = NoState
    /\ edit_timer = FALSE
    /\ moves = 0

callVars == <<pieces, pc, data, offset, local_entries, local_data_end, cd_entries,
              cd_offset, entry_count, local_count, result, last, rebuilt, spliced, vlog>>

\* output_override = self.output_var.get().strip(); has_override = ...;
\* if not has_override and not self.mapping_loaded: output_override = BASE_DIR
ExportStart ==
    /\ xpc = "start"
    /\ IF settings.output_var = "" /\ ~settings.mapping_loaded
       THEN output_override' = BASE_DIR /\ has_override' = TRUE
       ELSE output_override' = settings.output_var
            /\ has_override' = (settings.output_var # "")
    /\ xpc' = "copy"
    /\ UNCHANGED <<file, callVars, settings, disk>>
    /\ UNCHANGED undoVars

\* shutil.copy2(BACKUP_ZIP, OUTPUT_ZIP)
ExportCopy ==
    /\ xpc = "copy"
    /\ file' = BACKUP_ZIP
    /\ xpc' = "reimport"
    /\ UNCHANGED <<callVars, settings, output_override, has_override, disk>>
    /\ UNCHANGED undoVars

\* what QuickBMS can leave in OUTPUT_ZIP: the archive as it was, or with an
\* entry added behind it
Reimported(buf) == {buf, buf \o SerializePiece(EntryA)}

\* subprocess.run([QUICKBMS_EXE, "-w", "-r", "-r", "-r", ZIP_BMS, OUTPUT_ZIP, ET_DIR], ...)
ExportReimport ==
    /\ xpc = "reimport"
    /\ file' \in Reimported(file)
    /\ xpc' = "rebuild"
    /\ UNCHANGED <<callVars, settings, output_override, has_override, disk>>
    /\ UNCHANGED undoVars

\* except subprocess.TimeoutExpired: "QuickBMS timed out."
ExportTimeout ==
    /\ xpc = "reimport"
    /\ xpc' = "failed"
    /\ UNCHANGED <<file, callVars, settings, output_override, has_override, disk>>
    /\ UNCHANGED undoVars

\* file_count = rebuild_zip_central_directory(OUTPUT_ZIP)
ExportRebuild ==
    /\ xpc = "rebuild"
    /\ pc # "idle" \/ last.fn # "rebuild"
    /\ Rebuild

\* the rebuild ended: go on to verify, or except Exception: "Export Failed"
ExportRebuilt ==
    /\ xpc = "rebuild"
    /\ pc = "idle"
    /\ last.fn = "rebuild"
    /\ xpc' = IF last.outcome = "returned" THEN "verify" ELSE "failed"
    /\ UNCHANGED <<file, callVars, settings, output_override, has_override, disk>>
    /\ UNCHANGED undoVars

\* valid, msg = verify_zip(OUTPUT_ZIP)
ExportVerify ==
    /\ xpc = "verify"
    /\ pc # "idle" \/ last.fn # "verify"
    /\ Verify

\* variant: the verdict of verify_zip is not looked at
ExportVerifiedUnchecked ==
    /\ xpc = "verify"
    /\ pc = "idle"
    /\ last.fn = "verify"
    /\ xpc' = IF last.outcome = "returned" THEN "deliver" ELSE "failed"
    /\ UNCHANGED <<file, callVars, settings, output_override, has_override, disk>>
    /\ UNCHANGED undoVars

\* if not valid: raise RuntimeError(...); except Exception: "Export Failed"
ExportVerified ==
    /\ xpc = "verify"
    /\ pc = "idle"
    /\ last.fn = "verify"
    /\ xpc' = IF last.outcome = "returned" /\ result.valid THEN "deliver" ELSE "failed"
    /\ UNCHANGED <<file, callVars, settings, output_override, has_override, disk>>
    /\ UNCHANGED undoVars

\* if has_override: ... elif self.file_mapping.get("main_et_zip"): ... else: ...
DestZip(override, folder, mapped) ==
    IF override THEN Join(folder, "enginetuning.zip")
    ELSE IF mapped # NoPath THEN mapped
    ELSE Join(BASE_DIR, "enginetuning.zip")

dest_zip == DestZip(has_override, output_override, settings.main_et_zip)

\* if normpath(dest_zip) != normpath(OUTPUT_ZIP): shutil.copy2(OUTPUT_ZIP, dest_zip)
ExportDeliver ==
    /\ xpc = "deliver"
    /\ disk' = IF dest_zip # OUTPUT_ZIP THEN [disk EXCEPT ![dest_zip] = file] ELSE disk
    /\ xpc' = "complete"
    /\ UNCHANGED <<file, callVars, settings, output_override, has_override>>
    /\ UNCHANGED undoVars

NextExport == ExportStart \/ ExportCopy \/ ExportReimport \/ ExportTimeout
                 \/ ExportRebuild \/ ExportRebuilt \/ ExportVerify \/ ExportVerified
                 \/ ExportDeliver

SpecExport == InitExport /\ [][NextExport]_vars

-----------------------------------------------------------------------------
(* Undo and redo of the form *)

\* largest widget value of the form
MaxForm == 3
\* undos and redos followed per selected car
MaxMoves == 2
\* if len(self._undo_stack) > 50
UndoLimit == 50

FormValues == 0..MaxForm

\* _capture_state: every value goes through f"{v:.6f}", which gives one
\* snapshot for all the widget values that round to it; the values 0 and
\* MaxForm are the two that six decimals name exactly
Capture(f) == IF 2 * f < MaxForm THEN 0 ELSE MaxForm
\* _restore_state: var.set(float(val)) puts the value the snapshot names
\* into the widget
Restore(snapshot) == snapshot

InitUndo ==
    /\ pieces = <<>>
    /\ file = <<>>
    /\ pc = "idle"
    /\ data = <<>>
    /\ offset = 0
    /\ local_entries = <<>>
    /\ local_data_end = 0
    /\ cd_entries = <<>>
    /\ cd_offset = 0
    /\ entry_count = 0
    /\ local_count = 0
    /\ result = NoResult
    /\ last = Idle("none", "returned")
    /\ rebuilt = 0
    /\ spliced = FALSE
    /\ vlog = [k \in 1..MaxRebuilds |-> NoResult]
    /\ xpc = "off"
    /\ settings = NoSettings
    /\ output_override = ""
    /\ has_override = FALSE
    /\ disk = [p \in OtherZips |-> EarlierArchive]
    /\ current_tree = FALSE
    /\ form \in FormValues
    /\ undo_stack = <<>>
    /\ redo_stack = <<>>
    /\ last_state = NoState
    /\ edit_timer = FALSE
    /\ moves = 0

zipVars == <<file, callVars, exportVars>>

\* _on_car_selected: the widgets are loaded from the car's XML;
\* self._undo_stack.clear(); self._redo_stack.clear();
\* self._last_state = self._capture_state()
SelectCar ==
    /\ current_tree' = TRUE
    /\ \E f \in FormValues : form' = f /\ last_state' = Capture(f)
    /\ undo_stack' = <<>>
    /\ redo_stack' = <<>>
    /\ moves' = 0
    /\ UNCHANGED <<edit_timer, zipVars>>

\* the user changes a widget
Edit ==
    /\ \E f \in FormValues \ {form} : form' = f
    /\ UNCHANGED <<current_tree, undo_stack, redo_stack, last_state, edit_timer,
                   moves, zipVars>>

\* _on_possible_edit: if self.current_tree is None or self._restoring: return;
\* cancel the scheduled callback and schedule one in 150 ms
OnPossibleEdit ==
    /\ current_tree
    /\ edit_timer' = TRUE
    /\ UNCHANGED <<current_tree, form, undo_stack, redo_stack, last_state, moves,
                   zipVars>>

\* variant: the oldest state is never dropped
KeepAll(stack) == stack

\* if len(self._undo_stack) > 50: self._undo_stack.pop(0)
DropOldest(stack) == IF Len(stack) > UndoLimit THEN Tail(stack) ELSE stack

\* _check_and_push_undo, run by the timer
CheckAndPushUndo ==
    /\ edit_timer
    /\ edit_timer' = FALSE
    /\ IF last_state # NoState /\ Capture(form) # last_state
       THEN /\ undo_stack' = DropOldest(Append(undo_stack, last_state))
            /\ redo_stack' = <<>>
       ELSE UNCHANGED <<undo_stack, redo_stack>>
    /\ last_state' = Capture(form)
    /\ UNCHANGED <<current_tree, form, moves, zipVars>>

Front(stack) == SubSeq(stack, 1, Len(stack) - 1)
Top(stack) == stack[Len(stack)]

\* _on_undo past its guard: current = capture; redo.append(current);
\* state = undo.pop(); restore(state); _last_state = state
UndoResult(f, undo, redo) ==
    [form |-> Restore(Top(undo)), undo |-> Front(undo),
     redo |-> Append(redo, Capture(f)), last |-> Top(undo)]

\* _on_redo past its guard: current = capture; undo.append(current);
\* state = redo.pop(); restore(state); _last_state = state
RedoResult(f, undo, redo) ==
    [form |-> Restore(Top(redo)), undo |-> Append(undo, Capture(f)),
     redo |-> Front(redo), last |-> Top(redo)]

\* _on_undo: if not self._undo_stack or self.current_tree is None: return "break"
OnUndo ==
    /\ undo_stack # <<>>
    /\ current_tree
    /\ moves < MaxMoves
    /\ LET to == UndoResult(form, undo_stack, redo_stack)
       IN  /\ form' = to.form
           /\ undo_stack' = to.undo
           /\ redo_stack' = to.redo
           /\ last_state' = to.last
    /\ moves' = moves + 1
    /\ UNCHANGED <<current_tree, edit_timer, zipVars>>

\* _on_redo: if not self._redo_stack or self.current_tree is None: return "break"
OnRedo ==
    /\ redo_stack # <<>>
    /\ current_tree
    /\ moves < MaxMoves
    /\ LET to == RedoResult(form, undo_stack, redo_stack)
       IN  /\ form' = to.form
           /\ undo_stack' = to.undo
           /\ redo_stack' = to.redo
           /\ last_state' = to.last
    /\ moves' = moves + 1
    /\ UNCHANGED <<current_tree, edit_timer, zipVars>>

NextUndo == SelectCar \/ Edit \/ OnPossibleEdit \/ CheckAndPushUndo \/ OnUndo \/ OnRedo

SpecUndo == InitUndo /\ [][NextUndo]_vars

-----------------------------------------------------------------------------

Next == Rebuild \/ Verify \/ Splice

Spec == Init /\ [][Next]_vars

-----------------------------------------------------------------------------
(* Vocabulary of the properties *)

\* p is a local entry that lies in the buffer whole: its payload has the declared size
WholeEntry(p) == p.kind = "entry" /\ p.comp_sz = Len(p.payload)
AsciiName(p) == \A i \in 1..Len(p.name) : p.name[i] < AsciiLimit

\* the archive is nothing but whole local entries, one right after the other
Contiguous(ps) == \A i \in 1..Len(ps) : WholeEntry(ps[i])
ContiguousAscii(ps) == \A i \in 1..Len(ps) : WholeEntry(ps[i]) /\ AsciiName(ps[i])

\* offset at which piece k was serialized, and the end of the last piece
PieceOffset(ps, k) == Len(Serialize(SubSeq(ps, 1, k - 1)))

\* entry e carries the values piece p was serialized from, at offset off
SameFields(e, p, off) ==
    /\ e.local_header_offset = off
    /\ e.ver = p.ver /\ e.flags = p.flags /\ e.method = p.method
    /\ e.modtime = p.modtime /\ e.moddate = p.moddate
    /\ e.crc = p.crc /\ e.comp_sz = p.comp_sz /\ e.uncomp_sz = p.uncomp_sz
    /\ e.fn_len = Len(p.name) /\ e.extra_len = Len(p.extra)
    /\ e.name = p.name

\* the scan loop of the first rebuild has ended
FirstScanDone == pc = "build" /\ rebuilt = 0
\* the first rebuild call has ended, by return or by exception
FirstRebuildEnded ==
    /\ pc = "idle" /\ last.fn = "rebuild"
    /\ (rebuilt = 1 \/ last.outcome = "raised")
\* verify_zip has just ended on the file as it is
VerifyEnded == pc = "idle" /\ last.fn = "verify" /\ data = file

EocdFixedSize == 22

-----------------------------------------------------------------------------
(* Properties *)

\* C1: for an archive that is exactly N whole local entries (ASCII names), the
\* scan returns N entries, in order, each field equal to the serialized value.
ScanRoundTrip ==
    (FirstScanDone /\ ContiguousAscii(pieces)) =>
        /\ Len(local_entries) = Len(pieces)
        /\ \A k \in 1..Len(local_entries) :
               k <= Len(pieces) => SameFields(local_entries[k], pieces[k], PieceOffset(pieces, k))

\* C2: when the scan emitted every entry of an archive of one or more whole
\* local entries, the rebuild returns and verify_zip on the rebuilt file
\* returns valid = True.
RebuildThenVerifyValid ==
    (Len(pieces) >= 1 /\ Contiguous(pieces) /\ Len(local_entries) = Len(pieces)) =>
        /\ FirstRebuildEnded => last.outcome = "returned"
        /\ (VerifyEnded /\ rebuilt = 1 /\ ~spliced) =>
               (last.outcome = "returned" /\ result.valid)

\* C3: verify_zip never raises, it always returns a (valid, message) pair.
VerifyNeverRaises == ~(pc = "idle" /\ last = Idle("verify", "raised"))

\* C4: every entry the scan emitted lies inside the buffer.
EmittedEntriesInsideBuffer ==
    pc \in {"scan", "build", "write"} =>
        \A i \in 1..Len(local_entries) :
            local_entries[i].local_header_offset + EntrySpan(local_entries[i]) <= Len(data)

\* C5: the rebuild of an archive holding an entry with a non-ASCII filename
\* returns, with one central-directory record per scanned entry.
ScannedNonAscii ==
    \E i \in 1..Len(local_entries) :
        \E j \in 1..Len(local_entries[i].name) : local_entries[i].name[j] = ReplacementChar
RebuildSurvivesNonAscii ==
    (pc = "idle" /\ last.fn = "rebuild" /\ ScannedNonAscii) =>
        /\ last.outcome = "returned"
        /\ Len(cd_entries) >= 46 * Len(local_entries)

\* C6: on a buffer without the bytes PK\x05\x06, verify_zip returns
\* (False, "No EOCD record found") in its first step, checking nothing else.
NoEOCDReported ==
    [][(pc = "locate" /\ RFind(data, SigEOCD) < 0) =>
          /\ pc' = "idle"
          /\ last' = Idle("verify", "returned")
          /\ result' = Result(FALSE, "No EOCD record found", <<>>)
          /\ UNCHANGED <<cd_offset, entry_count, local_count, offset>>]_vars
NoEOCDWitness ==
    /\ pc = "idle" /\ last = Idle("verify", "returned")
    /\ RFind(data, SigEOCD) < 0
    /\ Len(data) >= LocalHeaderSize
    /\ result = Result(FALSE, "No EOCD record found", <<>>)

\* C7: when the last EOCD record of the buffer declares a central-directory
\* offset >= len(buffer), verify_zip returns (False, "CD offset ... beyond file
\* size"), whatever the declared entry count and the local headers present.
DeclaresOffsetBeyond(buf) ==
    /\ RFind(buf, SigEOCD) >= 0
    /\ RFind(buf, SigEOCD) + 20 <= Len(buf)
    /\ UnpackI(buf, RFind(buf, SigEOCD) + 16) >= Len(buf)
OffsetBeyondReported ==
    (VerifyEnded /\ DeclaresOffsetBeyond(data)) =>
        /\ last.outcome = "returned"
        /\ result = Result(FALSE, "CD offset beyond file size",
                           <<UnpackI(data, RFind(data, SigEOCD) + 16)>>)
OffsetBeyondWitness ==
    /\ VerifyEnded /\ DeclaresOffsetBeyond(data)
    /\ UnpackI(data, RFind(data, SigEOCD) + 16) = Len(data)
    /\ UnpackH(data, RFind(data, SigEOCD) + 10) = 1
    /\ Slice(data, 0, 4) = SigLocal
    /\ ~result.valid

\* C8: one byte inserted at any position of [0, central-directory offset] of a
\* rebuilt archive with at least one entry makes verify_zip return valid =
\* False, as an entry-count mismatch or a bad central-directory signature.
SpliceDetected ==
    (VerifyEnded /\ spliced) =>
        /\ last.outcome = "returned"
        /\ ~result.valid
        /\ result.message.text \in {"Local headers != CD entries", "Invalid CD signature"}
SpliceWitness ==
    /\ VerifyEnded /\ spliced
    /\ Len(local_entries) = 2
    /\ ~result.valid
    /\ result.message.text = "Invalid CD signature"

\* C9: verify_zip gives the same validity after two rebuilds as after one.
RebuildTwiceSameValidity ==
    (vlog[1] # NoResult /\ vlog[2] # NoResult) => vlog[1].valid = vlog[2].valid

\* C10: for N whole local entries with nothing between or after them, the
\* EOCD of the rebuilt archive declares N entries and, as central-directory
\* offset, the sum of the entries' sizes, where the first record starts.
EocdDeclaresAllEntries ==
    (FirstRebuildEnded /\ last.outcome = "returned" /\ ContiguousAscii(pieces)) =>
        LET eocd == Len(file) - EocdFixedSize
            total == Len(Serialize(pieces))
        IN  /\ UnpackH(file, eocd + 10) = Len(pieces)
            /\ UnpackI(file, eocd + 16) = total
            /\ Len(pieces) >= 1 => Slice(file, total, total + 4) = SigCD

\* C11: bytes [0, local_data_end) of the rebuilt file are, byte for byte,
\* bytes [0, local_data_end) of the file that was read.
LocalBytesKept ==
    (pc = "idle" /\ last = Idle("rebuild", "returned")) =>
        Slice(file, 0, local_data_end) = Slice(data, 0, local_data_end)

\* C12: the rebuilt file is local_data_end + len(cd_entries) + 22 bytes long
\* and ends with the EOCD record just written; nothing the file held at or
\* after local_data_end is kept.
TrailingBytesDropped ==
    (pc = "idle" /\ last = Idle("rebuild", "returned")) =>
        /\ Len(file) = local_data_end + Len(cd_entries) + EocdFixedSize
        /\ Slice(file, Len(file) - EocdFixedSize, Len(file))
               = EOCDRecord(Len(local_entries), Len(cd_entries), local_data_end)

\* C13: every iteration of the scan loop reads its 4 signature bytes and its
\* 26 header bytes inside the buffer, and either ends the loop or moves the
\* offset forward, by 1 or by at least 30; the scan is never stuck.
ScanNeverStuck ==
    pc = "scan" =>
        /\ ScanContinues(offset, data) => offset + 4 + 26 <= Len(data)
        /\ ENABLED (ScanLocal \/ ScanCD \/ ScanSkip \/ ScanEnd)
ScanStepsForward ==
    /\ []ScanNeverStuck
    /\ [][pc = "scan" =>
          /\ ScanContinues(offset, data) =>
                 (offset + 4 <= Len(data) /\ offset + 4 + 26 <= Len(data))
          /\ \/ pc' = "build" /\ offset' = offset
             \/ pc' = "scan" /\ data' = data /\ offset' = offset + 1
                             /\ local_entries' = local_entries
             \/ pc' = "scan" /\ data' = data /\ offset' >= offset + 30
                             /\ Len(local_entries') = Len(local_entries) + 1
          /\ pc' = "scan" => offset < Len(data) - 30]_vars
ScanStepsWitness ==
    /\ pc = "build"
    /\ Len(local_entries) = 1
    /\ local_entries[1].local_header_offset = 1
    /\ offset = 1 + EntrySpan(local_entries[1])
    /\ offset <= Len(data)

\* C15: a scan position that holds the central-directory signature, its 4
\* bytes inside the buffer, ends the scan at once, with local_data_end that
\* position and no entry added.
StopsAtDirectory ==
    [][(pc = "scan" /\ offset + 4 <= Len(data)
                    /\ SubSeq(data, offset + 1, offset + 4) = <<80, 75, 1, 2>>) =>
          /\ pc' = "build"
          /\ local_data_end' = offset
          /\ local_entries' = local_entries]_vars
\* the same at a position the loop condition no longer admits
StopsAtDirectoryNearEnd ==
    /\ pc = "build"
    /\ Len(local_entries) = 1
    /\ local_data_end + 4 = Len(data)
    /\ Slice(data, local_data_end, local_data_end + 4) = SigCD
StopsAtDirectoryWitness ==
    /\ pc = "build"
    /\ Len(local_entries) = 1
    /\ local_data_end = local_entries[1].local_header_offset + EntrySpan(local_entries[1])
    /\ local_data_end + LocalHeaderSize < Len(data)
    /\ Slice(data, local_data_end, local_data_end + 4) = SigCD

\* C16: the scan ends, short of a central-directory signature, only when
\* fewer than 30 bytes remain at the offset: a position with exactly 30
\* bytes remaining is still examined.
ScansWhileThirtyRemain ==
    (pc = "build" /\ Slice(data, local_data_end, local_data_end + 4) # SigCD) =>
        Len(data) - local_data_end < 30

\* C17: the scanned entries are in strictly increasing offset order and do
\* not overlap; the bytes between the end of an entry and the next entry (or
\* the scan offset) are exactly positions stepped over one byte at a time,
\* so without such a step the next entry (or local_data_end) is at the end.
NoSignatureAt(buf, q) ==
    Slice(buf, q, q + 4) # <<80, 75, 3, 4>> /\ Slice(buf, q, q + 4) # <<80, 75, 1, 2>>
EndOf(e) == e.local_header_offset + 30 + e.fn_len + e.extra_len + e.comp_sz
EntriesOrdered ==
    pc \in {"scan", "build", "write"} =>
        /\ \A i \in 1..Len(local_entries) :
               LET next == IF i < Len(local_entries)
                           THEN local_entries[i + 1].local_header_offset
                           ELSE offset
               IN  /\ local_entries[i].local_header_offset < next
                   /\ EndOf(local_entries[i]) <= next
                   /\ \A q \in EndOf(local_entries[i])..(next - 1) : NoSignatureAt(data, q)
        /\ pc \in {"build", "write"} => local_data_end = offset
EntriesOrderedWitness ==
    /\ pc = "build"
    /\ Len(local_entries) = 2
    /\ local_entries[1].local_header_offset = 0
    /\ local_entries[2].local_header_offset = EndOf(local_entries[1]) + 1
    /\ local_data_end = EndOf(local_entries[2])

\* C18: with junk bytes before, between or after whole local entries, the
\* scan emits every entry, each with its true offset, and nothing else.
EntryPositions(ps) == SelectSeq([i \in 1..Len(ps) |-> i], LAMBDA i : ps[i].kind = "entry")
JunkAmongEntries(ps) ==
    /\ \A i \in 1..Len(ps) : ps[i] = Junk \/ (WholeEntry(ps[i]) /\ AsciiName(ps[i]))
    /\ \E i \in 1..Len(ps) : ps[i] = Junk
    /\ \E i \in 1..Len(ps) : ps[i] # Junk
Resynchronizes ==
    (FirstScanDone /\ JunkAmongEntries(pieces)) =>
        LET at == EntryPositions(pieces)
        IN  /\ Len(local_entries) = Len(at)
            /\ \A k \in 1..Len(local_entries) :
                   k <= Len(at) =>
                       SameFields(local_entries[k], pieces[at[k]], PieceOffset(pieces, at[k]))

\* position in the central-directory block at which the record of entry k starts
RECURSIVE RecordStart(_, _)
RecordStart(entries, k) ==
    IF k = 1 THEN 0
    ELSE RecordStart(entries, k - 1) + 46 + Len(entries[k - 1].name)

\* the block has been built: the rebuild is about to write, or has returned
DirectoryBuilt == pc = "write" \/ (pc = "idle" /\ last = Idle("rebuild", "returned"))

\* C19: the central-directory block is one record per scanned entry, in scan
\* order: record k starts with PK\x01\x02, copies entry k's flags, method, mod
\* time, mod date, crc32, sizes and name length, points back to its local
\* header offset and ends with the filename bytes of the local header.
OneRecordPerEntry ==
    DirectoryBuilt =>
        /\ Len(cd_entries) = RecordStart(local_entries, Len(local_entries) + 1)
        /\ \A k \in 1..Len(local_entries) :
               LET e == local_entries[k]
                   at == RecordStart(local_entries, k)
               IN  /\ Slice(cd_entries, at, at + 4) = <<80, 75, 1, 2>>
                   /\ UnpackH(cd_entries, at + 8) = e.flags
                   /\ UnpackH(cd_entries, at + 10) = e.method
                   /\ UnpackH(cd_entries, at + 12) = e.modtime
                   /\ UnpackH(cd_entries, at + 14) = e.moddate
                   /\ UnpackI(cd_entries, at + 16) = e.crc
                   /\ UnpackI(cd_entries, at + 20) = e.comp_sz
                   /\ UnpackI(cd_entries, at + 24) = e.uncomp_sz
                   /\ UnpackH(cd_entries, at + 28) = e.fn_len
                   /\ UnpackI(cd_entries, at + 42) = e.local_header_offset
                   /\ Slice(cd_entries, at + 46, at + 46 + Len(e.name))
                          = Slice(data, e.local_header_offset + 30,
                                  e.local_header_offset + 30 + e.fn_len)
OneRecordPerEntryWitness ==
    /\ pc = "write"
    /\ Len(local_entries) = 2
    /\ local_entries[1].name # local_entries[2].name
    /\ local_entries[2].local_header_offset > 0
    /\ Len(cd_entries) > 2 * 46

\* C20: in every record version_made_by and version_needed are the entry's
\* version, and extra length, comment length, disk number start, internal
\* and external attributes are 0, also for an entry with extra_length > 0;
\* the record is 46 bytes and the name, with no extra-field byte.
VersionTwiceExtraDropped ==
    DirectoryBuilt =>
        \A k \in 1..Len(local_entries) :
            LET e == local_entries[k]
                at == RecordStart(local_entries, k)
                next == IF k < Len(local_entries)
                        THEN RecordStart(local_entries, k + 1) ELSE Len(cd_entries)
            IN  /\ UnpackH(cd_entries, at + 4) = e.ver
                /\ UnpackH(cd_entries, at + 6) = e.ver
                /\ UnpackH(cd_entries, at + 30) = 0
                /\ UnpackH(cd_entries, at + 32) = 0
                /\ UnpackH(cd_entries, at + 34) = 0
                /\ UnpackH(cd_entries, at + 36) = 0
                /\ UnpackI(cd_entries, at + 38) = 0
                /\ next - at = 46 + Len(e.name)
VersionTwiceWitness ==
    /\ pc = "write"
    /\ Len(local_entries) = 2
    /\ local_entries[1].extra_len = 1
    /\ local_entries[1].ver # local_entries[2].ver

\* the file at the path the export delivers to, where the settings fix that path
DestinationFile == IF dest_zip = OUTPUT_ZIP THEN file ELSE disk[dest_zip]

\* C14: from the start of the export pipeline on, for every choice of override
\* folder, file mapping or neither, the file at the destination path differs
\* from what it was before the export only once verify_zip has returned
\* valid = true for the archive it holds, and after a failed export it is as
\* it was before.
DeliveredOnlyVerified ==
    xpc \in {"copy", "reimport", "rebuild", "verify", "deliver", "complete", "failed"} =>
        /\ DestinationFile # EarlierArchive =>
               /\ xpc \in {"deliver", "complete"}
               /\ last = Idle("verify", "returned")
               /\ result.valid
               /\ DestinationFile = data
        /\ xpc = "failed" => DestinationFile = EarlierArchive

\* the rebuild has returned and nothing has touched the file since
JustRebuilt == pc = "idle" /\ last = Idle("rebuild", "returned")

\* C21: the written archive ends with a 22-byte EOCD: signature PK\x05\x06,
\* disk numbers 0, both entry counts the number of scanned entries, size the
\* length of the written central-directory block, offset local_data_end,
\* comment length 0; it is the record verify_zip finds, and the fields
\* verify_zip reads at +10 and +16 are the total count and the offset.
EocdLayout ==
    JustRebuilt =>
        LET at == Len(file) - 22
        IN  /\ at = Min(local_data_end, Len(data)) + Len(cd_entries)
            /\ Slice(file, at, at + 4) = <<80, 75, 5, 6>>
            /\ UnpackH(file, at + 4) = 0
            /\ UnpackH(file, at + 6) = 0
            /\ UnpackH(file, at + 8) = Len(local_entries)
            /\ UnpackH(file, at + 10) = Len(local_entries)
            /\ UnpackI(file, at + 12) = Len(cd_entries)
            /\ UnpackI(file, at + 16) = local_data_end
            /\ UnpackH(file, at + 20) = 0
            /\ Slice(file, at - Len(cd_entries), at) = cd_entries
            /\ EocdPos(file) = at
EocdLayoutWitness ==
    /\ JustRebuilt
    /\ Len(local_entries) = 2
    /\ Len(cd_entries) # local_data_end
    /\ local_data_end > 0

\* C22: the count loop of verify_zip has no byte-by-byte fallback: at the
\* first position on its path whose 4 bytes are not PK\x03\x04 the count is
\* over, so the loop never goes on from such a position.
CountStopsAtFirstNonHeader ==
    [][(/\ pc = "count"
        /\ offset < cd_offset
        /\ Slice(data, offset, offset + 4) # <<80, 75, 3, 4>>)
           => pc' # "count"]_vars

\* the local headers a walk from `off` meets below `limit`, stepping over a
\* header by its declared lengths and over any other byte by 1; -1 if a read
\* would pass the end of the buffer
RECURSIVE HeadersBelow(_, _, _)
HeadersBelow(buf, off, limit) ==
    IF off >= limit THEN 0
    ELSE IF off + 4 > Len(buf) THEN -1
    ELSE IF Slice(buf, off, off + 4) # <<80, 75, 3, 4>>
         THEN HeadersBelow(buf, off + 1, limit)
    ELSE IF off + 30 > Len(buf) THEN -1
    ELSE LET rest == HeadersBelow(buf,
                        off + 30 + UnpackH(buf, off + 26) + UnpackH(buf, off + 28)
                            + UnpackI(buf, off + 18),
                        limit)
         IN  IF rest < 0 THEN -1 ELSE rest + 1

\* the four checks, in order, on the last PK\x05\x06 of the buffer
FourChecks(buf) ==
    LET pos == RFind(buf, <<80, 75, 5, 6>>)
        off == UnpackI(buf, pos + 16)
        declared == UnpackH(buf, pos + 10)
    IN  IF pos < 0 THEN Result(FALSE, "No EOCD record found", <<>>)
        ELSE IF off >= Len(buf) THEN Result(FALSE, "CD offset beyond file size", <<off>>)
        ELSE IF Slice(buf, off, off + 4) # <<80, 75, 1, 2>>
             THEN Result(FALSE, "Invalid CD signature", <<off>>)
        ELSE IF HeadersBelow(buf, 0, off) # declared
             THEN Result(FALSE, "Local headers != CD entries",
                         <<HeadersBelow(buf, 0, off), declared>>)
        ELSE Result(TRUE, "Valid: files, CD at", <<declared, off>>)

\* C23: every call of verify_zip reports the first of NoEOCD,
\* OffsetOutOfBounds, BadCDSignature, EntryCountMismatch that fails on the
\* last EOCD signature of the buffer, and returns valid = true exactly when
\* all four pass.
ChecksInOrder ==
    (pc = "idle" /\ last.fn = "verify") =>
        /\ last.outcome = "returned"
        /\ result = FourChecks(data)

\* the rebuild of the export has written the file and its scan found no entry
RepairedWithoutEntries ==
    xpc \in {"rebuild", "verify", "deliver", "complete", "failed"}
        /\ rebuilt = 1 /\ local_entries = <<>>

\* C24: when the scan finds no local entry the rebuild still writes an
\* archive, the kept prefix followed only by a 22-byte EOCD declaring 0
\* entries and an empty central directory; verify_zip returns valid = false
\* on it, and the export fails without running its deliver step.
NoEntriesNoDelivery ==
    RepairedWithoutEntries =>
        /\ cd_entries = <<>>
        /\ Len(file) = local_data_end + 22
        /\ Slice(file, local_data_end, Len(file)) = EOCDRecord(0, 0, local_data_end)
        /\ JustRebuilt => Slice(file, 0, local_data_end) = Slice(data, 0, local_data_end)
        /\ (pc = "idle" /\ last.fn = "verify") =>
               (last.outcome = "returned" /\ ~result.valid)
        /\ xpc \notin {"deliver", "complete"}
        /\ \A p \in OtherZips : disk[p] = EarlierArchive
NoEntriesWitness ==
    /\ RepairedWithoutEntries
    /\ xpc = "failed"
    /\ last = Idle("verify", "returned")
    /\ local_data_end > 0
    /\ dest_zip # OUTPUT_ZIP

\* C25: the scan leaves local_data_end <= len(data), so in the written
\* archive the offset stored in the EOCD is the position at which the
\* central-directory block, or with no entries the EOCD, begins.
OffsetPointsAtDirectory ==
    JustRebuilt =>
        /\ local_data_end <= Len(data)
        /\ UnpackI(file, Len(file) - 22 + 16) + Len(cd_entries) + 22 = Len(file)
        /\ Slice(file, UnpackI(file, Len(file) - 22 + 16), Len(file) - 22) = cd_entries

\* the position reached by walking n central-directory records from `off` by
\* their declared lengths; -1 if a record does not start with PK\x01\x02
RECURSIVE WalkDirectory(_, _, _)
WalkDirectory(buf, off, n) ==
    IF n = 0 THEN off
    ELSE IF off + 46 > Len(buf) \/ Slice(buf, off, off + 4) # <<80, 75, 1, 2>> THEN -1
    ELSE WalkDirectory(buf,
             off + 46 + UnpackH(buf, off + 28) + UnpackH(buf, off + 30)
                 + UnpackH(buf, off + 32),
             n - 1)

RECURSIVE DeclaredDirectorySize(_)
DeclaredDirectorySize(entries) ==
    IF entries = <<>> THEN 0
    ELSE 46 + Head(entries).fn_len + DeclaredDirectorySize(Tail(entries))

\* C26: in the written archive every central-directory record declares as
\* name length the number of name bytes that follow it, the EOCD's size field
\* is the sum of 46 + name_length over the scanned entries, and a walk by
\* declared lengths from the declared offset passes the declared number of
\* records and ends at the EOCD.
DirectorySelfConsistent ==
    JustRebuilt =>
        LET at == Len(file) - 22
        IN  /\ \A k \in 1..Len(local_entries) :
                   UnpackH(cd_entries, RecordStart(local_entries, k) + 28)
                       = Len(local_entries[k].name)
            /\ UnpackI(file, at + 12) = DeclaredDirectorySize(local_entries)
            /\ WalkDirectory(file, UnpackI(file, at + 16), UnpackH(file, at + 10)) = at

\* C27: a second rebuild writes the bytes the first one wrote: the archive
\* neither grows nor shrinks when it is rebuilt again.
RepairIdempotent ==
    (JustRebuilt /\ rebuilt = 2) => file = data

\* C28: the undo stack never holds more than 50 states, and the two stacks
\* together never more than 50; a step of the debounce callback that records
\* a state empties the redo stack and, when the undo stack is full, drops
\* its oldest state.
HistoryWithinLimit ==
    /\ Len(undo_stack) <= 50
    /\ Len(undo_stack) + Len(redo_stack) <= 50
HistoryBounded ==
    /\ []HistoryWithinLimit
    /\ [][(/\ edit_timer /\ ~edit_timer'
           /\ last_state # NoState
           /\ Capture(form) # last_state)
              => /\ redo_stack' = <<>>
                 /\ undo_stack' = IF Len(undo_stack) = 50
                                  THEN Append(Tail(undo_stack), last_state)
                                  ELSE Append(undo_stack, last_state)]_vars
HistoryBoundedWitness ==
    /\ Len(undo_stack) = 50
    /\ redo_stack = <<>>
    /\ ~edit_timer
    /\ Capture(form) = last_state
    /\ Top(undo_stack) # last_state
    /\ moves = MaxMoves

\* C29: with a car loaded and a state to undo, undo followed at once by redo
\* leaves the form and both stacks as they were before the undo; with a
\* state to redo, redo followed at once by undo does the same.
UndoRedoRoundTrip ==
    current_tree =>
        /\ undo_stack # <<>> =>
               LET a == UndoResult(form, undo_stack, redo_stack)
                   b == RedoResult(a.form, a.undo, a.redo)
               IN  b.form = form /\ b.undo = undo_stack /\ b.redo = redo_stack
        /\ redo_stack # <<>> =>
               LET a == RedoResult(form, undo_stack, redo_stack)
                   b == UndoResult(a.form, a.undo, a.redo)
               IN  b.form = form /\ b.undo = undo_stack /\ b.redo = redo_stack

\* C30: when an edit has not yet been recorded by the debounce callback (the
\* callback is scheduled and the form differs from the last recorded state),
\* undo puts the form back to the last recorded state, i.e. it steps back
\* over that one edit only.
UndoStepsBackOneEdit ==
    [][(/\ OnUndo
        /\ edit_timer
        /\ last_state # NoState
        /\ Capture(form) # last_state)
           => Capture(form') = last_state]_vars

====
